---- MODULE Spec2Model ----
(***************************************************************************)
(* Job lifecycle of the text-to-Anki service: the submission path          *)
(* (app.py, upload_file), the coordination store (one key-value map of     *)
(* job records and the list job_queue) and the worker dispatch loop        *)
(* (worker.py, worker_loop / update_job_status).                           *)
(*                                                                         *)
(* Every Redis command is one atomic step; everything a process does       *)
(* between two commands is folded into the step of the command after it.   *)
(* A command that raises has no effect on the store.  print() is taken     *)
(* not to raise.  The instant datetime.utcnow() returns is abstracted to   *)
(* the one value Now: the model keeps which timestamp keys a write sets,   *)
(* not the instants.                                                       *)
(*                                                                         *)
(* The queries of app.py (job_status, list_jobs / fetch_jobs) are answered *)
(* on stores at rest, whose records are created at different instants      *)
(* (SpecQuery).  The text functions count_syllables and                    *)
(* flesch_kincaid_analysis (nlp.py), normalize, extract_entities,          *)
(* extract_keywords and assemble_deck (nlp_pipeline.py) are applied to     *)
(* inputs drawn from bounded sets (SpecSyllables, SpecFlesch,              *)
(* SpecScenario, SpecEntities, SpecKeywords, SpecDeck).  SpecUpload runs   *)
(* one upload request over its list of files; SpecFifo is the lifecycle    *)
(* with the order of the pushes and pops of job_queue written down.        *)
(***************************************************************************)
EXTENDS Integers, Sequences, FiniteSets, TLC

\* ------------------------------------------------------------------ bounds
MaxJobs == 2          \* job ids ever issued (uuid4 values), 1..MaxJobs
NumWorkers == 2       \* worker processes running worker_loop (the deployment starts 2)

Workers == 1..NumWorkers
JobIds == 1..MaxJobs
Uploaders == {"u1"}   \* request handlers running upload_file

\* ------------------------------------------------------- program constants
MissingMsg == "Missing file content in job metadata"
ExcMsg == "pipeline error"        \* str(e) of an exception of the pipeline
StoreMsg == "store error"         \* str(e) of a redis exception
Filename == "notes.txt"
Users == {"anonymous"}
Terminal == {"completed", "failed"}

\* An instant is <<second, microsecond>>.  isoformat() writes the second in a
\* zero-padded field of fixed width and leaves the fraction out when the
\* microsecond is 0; the string is the sequence of its characters, each the
\* distance of its code point from '0' ('.' is two below '0').
Dot == 0 - 2
IsoFormat(t) ==
    <<t[1] \div 10, t[1] % 10>> \o (IF t[2] = 0 THEN <<>> ELSE <<Dot, t[2]>>)
Now == IsoFormat(<<10, 0>>)        \* datetime.utcnow().isoformat()

VARIABLES
    store,      \* Redis keys job:<id>: a function from the ids present to dicts
    queue,      \* Redis list job_queue; queue[1] is the head (LPUSH side)
    nextId,     \* number of job ids issued so far
    origin,     \* history: who issued each id ("none" while not issued)
    upc,        \* upload_file: position of each request handler
    ujob,       \* upload_file: job_id of the file being submitted
    wpc,        \* worker_loop: position of each worker
    wjob,       \* worker_loop: job_id popped (0 when none)
    wcall,      \* update_job_status: status and kwargs of the call in progress
    wexc,       \* worker_loop: str(e) of the exception the inner handler caught
    wread,      \* update_job_status: job_data read by the GET at line 81
    handled,    \* history: workers that have caught a pipeline exception
    interrupted, \* history: <<worker, id in hand>> where KeyboardInterrupt arrived
    fin,        \* the request or call in progress outside the job lifecycle
    fout        \* its response or return value

vars == <<store, queue, nextId, origin, upc, ujob, wpc, wjob, wcall, wexc, wread, handled, interrupted, fin, fout>>

NoKwargs == [k \in {} |-> ""]
NoCall == [status |-> "none", kwargs |-> NoKwargs]
NoRead == [k \in {} |-> ""]
NoInput == [op |-> "none"]
NoOutput == [code |-> 0]

\* update_job_status that stores a new dict instead of the updated copy
UpdateJob_Rebuild(rec, status, kwargs, now) ==
    [k \in {"status", "updated_at"} \cup DOMAIN kwargs |->
        IF k \in DOMAIN kwargs THEN kwargs[k]
        ELSE IF k = "status" THEN status
        ELSE now]

\* update_job_status without `job_data['status'] = status`
UpdateJob_KeepStatus(rec, status, kwargs, now) ==
    [k \in DOMAIN rec \cup {"updated_at"} \cup DOMAIN kwargs |->
        IF k \in DOMAIN kwargs THEN kwargs[k]
        ELSE IF k = "updated_at" THEN now
        ELSE rec[k]]

\* dict.update of the record read, as update_job_status builds it
UpdateJob(rec, status, kwargs, now) ==
    [k \in DOMAIN rec \cup {"status", "updated_at"} \cup DOMAIN kwargs |->
        IF k \in DOMAIN kwargs THEN kwargs[k]
        ELSE IF k = "status" THEN status
        ELSE IF k = "updated_at" THEN now
        ELSE rec[k]]

\* redis SET key value
StoreSet(s, j, rec) == [k \in DOMAIN s \cup {j} |-> IF k = j THEN rec ELSE s[k]]

\* RPUSH in the place of LPUSH: the id goes to the end BRPOP reads
LPush_AtTail(q, j) == q \o <<j>>

\* a push that is repeated: the id is on the list twice
LPush_Twice(q, j) == <<j, j>> \o q

\* LPUSH job_queue id
LPush(q, j) == <<j>> \o q

\* a pop that reads the tail and leaves it on the list
RPopRest_Peek(q) == q

\* the element BRPOP returns, and the list it leaves
RPopValue(q) == q[Len(q)]
RPopRest(q) == SubSeq(q, 1, Len(q) - 1)

\* the record upload_file builds (lines 272-279): no file_content key
UploadRecord(j, usr, now) ==
    [job_id |-> j, filename |-> Filename, filepath |-> <<j, Filename>>,
     status |-> "queued", created_at |-> now, user |-> usr]

\* a record with inline input, as worker_loop expects it (line 142)
ContentRecord(j, usr, now) ==
    [job_id |-> j, filename |-> Filename, file_content |-> "text",
     status |-> "queued", created_at |-> now, user |-> usr]

\* `not file_content` at line 144
MissingContent(rec) ==
    \/ "file_content" \notin DOMAIN rec
    \/ rec["file_content"] = ""

Init ==
    /\ store = [j \in {} |-> NoRead]
    /\ queue = <<>>
    /\ nextId = 0
    /\ origin = [j \in JobIds |-> "none"]
    /\ upc = [u \in Uploaders |-> "idle"]
    /\ ujob = [u \in Uploaders |-> 0]
    /\ wpc = [w \in Workers |-> "brpop"]
    /\ wjob = [w \in Workers |-> 0]
    /\ wcall = [w \in Workers |-> NoCall]
    /\ wexc = [w \in Workers |-> "none"]
    /\ wread = [w \in Workers |-> NoRead]
    /\ handled = {}
    /\ interrupted = {}
    /\ fin = NoInput
    /\ fout = NoOutput

\* --------------------------------------------------- app.py: upload_file
\* lines 262-269: the file is accepted, uuid4 names the job, the file is saved
U_BeginStep(u) ==
    /\ upc[u] = "idle"
    /\ nextId < MaxJobs
    /\ nextId' = nextId + 1
    /\ origin' = [origin EXCEPT ![nextId + 1] = "upload"]
    /\ ujob' = [ujob EXCEPT ![u] = nextId + 1]
    /\ upc' = [upc EXCEPT ![u] = "set"]
    /\ UNCHANGED <<store, queue, wpc, wjob, wcall, wexc, wread, handled, interrupted>>

U_Begin(u) == U_BeginStep(u) /\ UNCHANGED <<fin, fout>>

\* upload_file without the SET of line 282 before the push
U_Set_Skipped(u) ==
    /\ upc[u] = "set"
    /\ upc' = [upc EXCEPT ![u] = "push"]
    /\ UNCHANGED <<store, queue, nextId, origin, ujob, wpc, wjob, wcall, wexc, wread, handled, interrupted, fin, fout>>

\* lines 272-282: build job_data and SET job:<id>
U_SetStep(u) ==
    /\ upc[u] = "set"
    /\ \E usr \in Users :
          store' = StoreSet(store, ujob[u], UploadRecord(ujob[u], usr, Now))
    /\ upc' = [upc EXCEPT ![u] = "push"]
    /\ UNCHANGED <<queue, nextId, origin, ujob, wpc, wjob, wcall, wexc, wread, handled, interrupted>>

U_Set(u) == U_SetStep(u) /\ UNCHANGED <<fin, fout>>

\* line 285: LPUSH job_queue <id>; the handler goes on to the next file
U_PushStep(u) ==
    /\ upc[u] = "push"
    /\ queue' = LPush(queue, ujob[u])
    /\ upc' = [upc EXCEPT ![u] = "idle"]
    /\ ujob' = [ujob EXCEPT ![u] = 0]
    /\ UNCHANGED <<store, nextId, origin, wpc, wjob, wcall, wexc, wread, handled, interrupted>>

U_Push(u) == U_PushStep(u) /\ UNCHANGED <<fin, fout>>

\* SET or LPUSH raises: the request ends with what it has written so far
U_StoreErrorStep(u) ==
    /\ upc[u] \in {"set", "push"}
    /\ upc' = [upc EXCEPT ![u] = "idle"]
    /\ ujob' = [ujob EXCEPT ![u] = 0]
    /\ UNCHANGED <<store, queue, nextId, origin, wpc, wjob, wcall, wexc, wread, handled, interrupted>>

U_StoreError(u) == U_StoreErrorStep(u) /\ UNCHANGED <<fin, fout>>

\* ------------------------------------------- other producers on the store
\* submit(filename, content, owner) with inline content: record, then id
SubmitContentStep ==
    /\ nextId < MaxJobs
    /\ nextId' = nextId + 1
    /\ origin' = [origin EXCEPT ![nextId + 1] = "content"]
    /\ \E usr \in Users :
          store' = StoreSet(store, nextId + 1, ContentRecord(nextId + 1, usr, Now))
    /\ queue' = LPush(queue, nextId + 1)
    /\ UNCHANGED <<upc, ujob, wpc, wjob, wcall, wexc, wread, handled, interrupted>>

SubmitContent == SubmitContentStep /\ UNCHANGED <<fin, fout>>

\* an id on job_queue that has no record in the store
PushOrphanStep ==
    /\ nextId < MaxJobs
    /\ nextId' = nextId + 1
    /\ origin' = [origin EXCEPT ![nextId + 1] = "orphan"]
    /\ queue' = LPush(queue, nextId + 1)
    /\ UNCHANGED <<store, upc, ujob, wpc, wjob, wcall, wexc, wread, handled, interrupted>>

PushOrphan == PushOrphanStep /\ UNCHANGED <<fin, fout>>

\* ------------------------------------------------ worker.py: worker_loop
\* the worker leaves the iteration: its locals are dead
Leave(w, pc) ==
    /\ wpc' = [wpc EXCEPT ![w] = pc]
    /\ wjob' = [wjob EXCEPT ![w] = 0]
    /\ wcall' = [wcall EXCEPT ![w] = NoCall]
    /\ wread' = [wread EXCEPT ![w] = NoRead]
    /\ wexc' = [wexc EXCEPT ![w] = "none"]

\* the worker calls update_job_status(job_id, status, **kwargs)
Call(w, call) ==
    /\ wpc' = [wpc EXCEPT ![w] = "upd_get"]
    /\ wcall' = [wcall EXCEPT ![w] = call]
    /\ wread' = [wread EXCEPT ![w] = NoRead]

\* line 146
MissingCall == [status |-> "failed", kwargs |-> [error |-> MissingMsg]]
\* line 150
ProcessingCall(now) == [status |-> "processing", kwargs |-> [started_at |-> now]]
\* lines 160-166
CompletedCall(j, now) ==
    [status |-> "completed",
     kwargs |-> [output_path |-> <<j, "deck.csv">>, output_content |-> "Front,Back",
                 completed_at |-> now]]
\* the inner handler without error=str(e)
FailedCall_NoMessage(msg, now) == [status |-> "failed", kwargs |-> [failed_at |-> now]]

\* lines 170-175
FailedCall(msg, now) == [status |-> "failed", kwargs |-> [error |-> msg, failed_at |-> now]]

\* lines 140-150: the call worker_loop makes for the record it loaded
FirstCall(rec, now) ==
    IF MissingContent(rec) THEN MissingCall ELSE ProcessingCall(now)

\* line 125: BRPOP returns an id
W_BrpopStep(w) ==
    /\ wpc[w] = "brpop"
    /\ queue # <<>>
    /\ wjob' = [wjob EXCEPT ![w] = RPopValue(queue)]
    /\ queue' = RPopRest(queue)
    /\ wpc' = [wpc EXCEPT ![w] = "get"]
    /\ UNCHANGED <<store, nextId, origin, upc, ujob, wcall, wexc, wread, handled, interrupted>>

W_Brpop(w) == W_BrpopStep(w) /\ UNCHANGED <<fin, fout>>

\* lines 125-129: BRPOP times out, result is None, continue
W_BrpopTimeout(w) ==
    /\ wpc[w] = "brpop"
    /\ queue = <<>>
    /\ UNCHANGED vars

\* a worker that reports a missing record as a failed job
W_Get_FailAbsent(w) ==
    /\ wpc[w] = "get"
    /\ IF wjob[w] \notin DOMAIN store
          THEN /\ store' = StoreSet(store, wjob[w], [status |-> "failed", error |-> MissingMsg])
               /\ Leave(w, "brpop")
          ELSE /\ Call(w, FirstCall(store[wjob[w]], Now))
               /\ UNCHANGED <<store, wjob, wexc>>
    /\ UNCHANGED <<queue, nextId, origin, upc, ujob, handled, interrupted, fin, fout>>

\* lines 135-150: GET job:<id>; skip when absent, else the first status call
W_Get(w) ==
    /\ wpc[w] = "get"
    /\ IF wjob[w] \notin DOMAIN store
          THEN Leave(w, "brpop")
          ELSE /\ Call(w, FirstCall(store[wjob[w]], Now))
               /\ UNCHANGED <<wjob, wexc>>
    /\ UNCHANGED <<store, queue, nextId, origin, upc, ujob, handled, interrupted, fin, fout>>

\* a statement after the completed write raises inside the inner try
Return_RaiseAfterCompleted(w) ==
    IF wcall[w]["status"] = "processing"
       THEN /\ wpc' = [wpc EXCEPT ![w] = "process"]
            /\ wcall' = [wcall EXCEPT ![w] = NoCall]
            /\ wread' = [wread EXCEPT ![w] = NoRead]
            /\ UNCHANGED <<wjob, wexc>>
       ELSE IF wcall[w]["status"] = "completed"
               THEN /\ wexc' = [wexc EXCEPT ![w] = ExcMsg]
                    /\ Call(w, FailedCall(ExcMsg, Now))
                    /\ UNCHANGED wjob
               ELSE Leave(w, "brpop")

\* where worker_loop goes when update_job_status returns
Return(w) ==
    IF wcall[w]["status"] = "processing"
       THEN /\ wpc' = [wpc EXCEPT ![w] = "process"]
            /\ wcall' = [wcall EXCEPT ![w] = NoCall]
            /\ wread' = [wread EXCEPT ![w] = NoRead]
            /\ UNCHANGED <<wjob, wexc>>
       ELSE Leave(w, "brpop")

\* update_job_status, lines 81-82: GET job:<id>; nothing to do when absent
W_UpdGet(w) ==
    /\ wpc[w] = "upd_get"
    /\ IF wjob[w] \in DOMAIN store
          THEN /\ wread' = [wread EXCEPT ![w] = store[wjob[w]]]
               /\ wpc' = [wpc EXCEPT ![w] = "upd_set"]
               /\ UNCHANGED <<wjob, wcall, wexc>>
          ELSE Return(w)
    /\ UNCHANGED <<store, queue, nextId, origin, upc, ujob, handled, interrupted, fin, fout>>

\* update_job_status, lines 83-87: SET job:<id> to the updated copy
W_UpdSet(w) ==
    /\ wpc[w] = "upd_set"
    /\ store' = StoreSet(store, wjob[w],
                         UpdateJob(wread[w], wcall[w]["status"], wcall[w]["kwargs"], Now))
    /\ Return(w)
    /\ UNCHANGED <<queue, nextId, origin, upc, ujob, handled, interrupted, fin, fout>>

\* lines 153-166: the pipeline and the read of its output succeed
W_ProcessOk(w) ==
    /\ wpc[w] = "process"
    /\ Call(w, CompletedCall(wjob[w], Now))
    /\ UNCHANGED <<store, queue, nextId, origin, upc, ujob, wjob, wexc, handled, interrupted, fin, fout>>

\* lines 153-158, 168-175: a stage raises, the inner handler reports it
W_ProcessRaise(w) ==
    /\ wpc[w] = "process"
    /\ wexc' = [wexc EXCEPT ![w] = ExcMsg]
    /\ Call(w, FailedCall(ExcMsg, Now))
    /\ handled' = handled \cup {w}
    /\ UNCHANGED <<store, queue, nextId, origin, upc, ujob, wjob, interrupted, fin, fout>>

\* the worker is inside the inner try: in the call that writes completed
InInnerTry(w) ==
    /\ wpc[w] \in {"upd_get", "upd_set"}
    /\ wcall[w]["status"] = "completed"

\* a Redis command of the worker raises.  Inside the inner try the inner
\* handler (lines 168-175) reports it as the job's error; anywhere else the
\* outer handler (lines 180-182) logs it and sleeps.
W_StoreError(w) ==
    /\ wpc[w] \in {"brpop", "get", "upd_get", "upd_set"}
    /\ IF InInnerTry(w)
          THEN /\ wexc' = [wexc EXCEPT ![w] = StoreMsg]
               /\ Call(w, FailedCall(StoreMsg, Now))
               /\ UNCHANGED wjob
          ELSE Leave(w, "sleep")
    /\ UNCHANGED <<store, queue, nextId, origin, upc, ujob, handled, interrupted, fin, fout>>

\* an outer handler that ends the loop instead of sleeping
W_Sleep_Break(w) ==
    /\ wpc[w] = "sleep"
    /\ wpc' = [wpc EXCEPT ![w] = "stopped"]
    /\ UNCHANGED <<store, queue, nextId, origin, upc, ujob, wjob, wcall, wexc, wread, handled, interrupted, fin, fout>>

\* line 182: time.sleep(5), then the next iteration
W_Sleep(w) ==
    /\ wpc[w] = "sleep"
    /\ wpc' = [wpc EXCEPT ![w] = "brpop"]
    /\ UNCHANGED <<store, queue, nextId, origin, upc, ujob, wjob, wcall, wexc, wread, handled, interrupted, fin, fout>>

\* a shutdown handler that puts the id in hand back on the queue
W_Interrupt_Requeue(w) ==
    /\ wpc[w] # "stopped"
    /\ Leave(w, "stopped")
    /\ interrupted' = interrupted \cup {<<w, wjob[w]>>}
    /\ queue' = IF wjob[w] = 0 THEN queue ELSE LPush(queue, wjob[w])
    /\ UNCHANGED <<store, nextId, origin, upc, ujob, handled, fin, fout>>

\* lines 177-179: KeyboardInterrupt ends the loop, wherever it arrives
W_Interrupt(w) ==
    /\ wpc[w] # "stopped"
    /\ Leave(w, "stopped")
    /\ interrupted' = interrupted \cup {<<w, wjob[w]>>}
    /\ UNCHANGED <<store, queue, nextId, origin, upc, ujob, handled, fin, fout>>

UploadStep == \E u \in Uploaders : U_Begin(u) \/ U_Set(u) \/ U_Push(u) \/ U_StoreError(u)

WorkerStep ==
    \E w \in Workers :
        \/ W_Brpop(w)
        \/ W_BrpopTimeout(w)
        \/ W_Get(w)
        \/ W_UpdGet(w)
        \/ W_UpdSet(w)
        \/ W_ProcessOk(w)
        \/ W_ProcessRaise(w)
        \/ W_StoreError(w)
        \/ W_Sleep(w)
        \/ W_Interrupt(w)

Next ==
    \/ UploadStep
    \/ SubmitContent
    \/ PushOrphan
    \/ WorkerStep

Spec == Init /\ [][Next]_vars

Statuses == {"queued", "processing"} \cup Terminal

TypeOK ==
    /\ DOMAIN store \subseteq JobIds
    /\ \A j \in DOMAIN store : store[j]["status"] \in Statuses
    /\ \A i \in 1..Len(queue) : queue[i] \in JobIds
    /\ nextId \in 0..MaxJobs
    /\ \A w \in Workers : wpc[w] \in {"brpop", "get", "upd_get", "upd_set", "process", "sleep", "stopped"}
    /\ \A w \in Workers : wjob[w] \in JobIds \cup {0}
    /\ \A w \in Workers : wexc[w] \in {"none", ExcMsg, StoreMsg}

\* ------------------------------------------------------------ the claims
Status(j) == store[j]["status"]
InCycle(w) == wpc[w] \in {"get", "upd_get", "upd_set", "process"}
InUpdate(w) == wpc[w] = "upd_set"
Submitted(j) == origin[j] \in {"upload", "content"}
InQueue(j) == \E i \in 1..Len(queue) : queue[i] = j
Held(j) == \E w \in Workers : wjob[w] = j
\* worker w ends its iteration here by falling through to the next BRPOP
CycleEnds(w) == InCycle(w) /\ wpc'[w] = "brpop"

AllowedMoves ==
    {<<"queued", "processing">>, <<"processing", "completed">>, <<"processing", "failed">>}

\* C1: the status of a record only moves queued -> processing -> completed
\* or failed; no step moves it backwards or skips a state, and a new record
\* starts queued.
C1_StatusMoves ==
    [][/\ \A j \in DOMAIN store :
             /\ j \in DOMAIN store'
             /\ \/ store'[j]["status"] = Status(j)
                \/ <<Status(j), store'[j]["status"]>> \in AllowedMoves
       /\ \A j \in DOMAIN store' \ DOMAIN store : store'[j]["status"] = "queued"]_vars

C3_ExclusiveClaim ==
    /\ \A w1, w2 \in Workers :
          (w1 # w2 /\ InCycle(w1) /\ InCycle(w2)) => wjob[w1] # wjob[w2]
    /\ \A w \in Workers : InCycle(w) => ~InQueue(wjob[w])
    /\ \A i, k \in 1..Len(queue) : queue[i] = queue[k] => i = k

C3_Witness ==
    \E w1, w2 \in Workers : w1 # w2 /\ InCycle(w1) /\ InCycle(w2)

\* C4: every id of a submitted job that is on the queue has a record, and so
\* has every id of a submitted job a worker has popped and is looking up.
C4_RecordBeforeEnqueue ==
    /\ \A i \in 1..Len(queue) : Submitted(queue[i]) => queue[i] \in DOMAIN store
    /\ \A w \in Workers :
          (wpc[w] = "get" /\ Submitted(wjob[w])) => wjob[w] \in DOMAIN store

C4_Witness ==
    /\ \E i \in 1..Len(queue) : origin[queue[i]] = "upload"
    /\ \E w \in Workers : wpc[w] = "get" /\ origin[wjob[w]] = "upload"

\* C5: an iteration for a job created by upload_file in which no stage raises
\* and no store command fails ends with the record completed, the deck and
\* completed_at stored.
C5_UploadedJobCompletes ==
    [][\A w \in Workers :
          (/\ CycleEnds(w)
           /\ origin[wjob[w]] = "upload"
           /\ wjob[w] \in DOMAIN store
           /\ wexc[w] = "none")
             => /\ store'[wjob[w]]["status"] = "completed"
                /\ {"output_content", "completed_at"} \subseteq DOMAIN store'[wjob[w]]]_vars

\* C6: a worker that caught an exception of the processing is in the call
\* that writes failed with the exception's message; when that write is done
\* the record, which was processing, is failed with the message in error and
\* the worker is back at the blocking pop; only KeyboardInterrupt ends a loop.
C6_ExceptionBecomesFailed ==
    /\ [](\A w \in Workers : wpc[w] = "stopped" => \E p \in interrupted : p[1] = w)
    /\ [](\A w \in Workers :
             wexc[w] # "none"
                => /\ wpc[w] \in {"upd_get", "upd_set"}
                   /\ wcall[w]["status"] = "failed"
                   /\ "error" \in DOMAIN wcall[w]["kwargs"]
                   /\ wcall[w]["kwargs"]["error"] = wexc[w])
    /\ [][\A w \in Workers :
             (/\ InUpdate(w)
              /\ wexc[w] # "none"
              /\ wpc'[w] \notin {"upd_set", "sleep"}
              /\ interrupted' = interrupted)
                => /\ Status(wjob[w]) = "processing"
                   /\ store'[wjob[w]]["status"] = "failed"
                   /\ "error" \in DOMAIN store'[wjob[w]]
                   /\ store'[wjob[w]]["error"] = wexc[w]
                   /\ wpc'[w] = "brpop"]_vars

C6_Witness ==
    /\ \E j \in DOMAIN store :
          /\ Status(j) = "failed"
          /\ "error" \in DOMAIN store[j]
          /\ store[j]["error"] = ExcMsg
    /\ \E w \in handled : InUpdate(w) /\ wcall[w]["status"] = "completed"

\* C7: a worker that looked up the id it popped and found no record leaves
\* the store and the queue as they are and goes back to the blocking pop.
C7_AbsentRecordSkipped ==
    [][\A w \in Workers :
          (/\ wpc[w] = "get"
           /\ wjob[w] \notin DOMAIN store
           /\ wpc'[w] \notin {"get", "sleep"}
           /\ interrupted' = interrupted)
             => /\ store' = store
                /\ queue' = queue
                /\ wpc'[w] = "brpop"]_vars

C7_Witness ==
    /\ \E j \in JobIds :
          /\ origin[j] = "orphan"
          /\ ~InQueue(j)
          /\ ~Held(j)
          /\ j \notin DOMAIN store
    /\ \E j \in DOMAIN store : Status(j) = "queued"
    /\ \A w \in Workers : wpc[w] = "brpop"

C9_PopErrorRetried ==
    [][\A w \in Workers :
          /\ (wpc[w] = "brpop" /\ wpc'[w] # "brpop")
                => /\ store' = store
                   /\ wpc'[w] = "sleep" => queue' = queue
          /\ (wpc[w] = "sleep" /\ wpc'[w] # "sleep")
                => /\ store' = store
                   /\ queue' = queue
          /\ (wpc[w] = "sleep" /\ wpc'[w] # "sleep" /\ interrupted' = interrupted)
                => wpc'[w] = "brpop"]_vars

C9_Witness ==
    /\ nextId >= 1
    /\ \A j \in 1..nextId : InQueue(j)
    /\ \E j \in DOMAIN store : Status(j) = "queued"
    /\ \E w \in Workers : wpc[w] = "sleep"

\* C10: no two workers are between the read and the write of
\* update_job_status for the same record, no upload is about to write a record
\* a worker is updating, and the copy a worker is about to write back was
\* read from the record as it still is.
C10_NoConcurrentUpdate ==
    /\ \A w1, w2 \in Workers :
          (w1 # w2 /\ InUpdate(w1) /\ InUpdate(w2)) => wjob[w1] # wjob[w2]
    /\ \A w \in Workers, u \in Uploaders :
          (InUpdate(w) /\ upc[u] = "set") => ujob[u] # wjob[w]
    /\ \A w \in Workers :
          InUpdate(w) => wjob[w] \in DOMAIN store /\ wread[w] = store[wjob[w]]

C10_Witness ==
    \E w1, w2 \in Workers : w1 # w2 /\ InUpdate(w1) /\ InUpdate(w2)

TimestampKeys == {"started_at", "completed_at", "failed_at"}

\* C11: a failed record has error and failed_at, a completed record has
\* completed_at, a record that is processing, completed or failed has
\* started_at, and a status call that carries one of these timestamps writes it
\* to a record that does not have it yet.
C11_TimestampsSet ==
    /\ \A j \in DOMAIN store :
          /\ Status(j) = "failed" => {"error", "failed_at"} \subseteq DOMAIN store[j]
          /\ Status(j) = "completed" => "completed_at" \in DOMAIN store[j]
          /\ Status(j) \in {"processing"} \cup Terminal => "started_at" \in DOMAIN store[j]
    /\ \A w \in Workers :
          InUpdate(w) =>
             \A k \in TimestampKeys \cap DOMAIN wcall[w]["kwargs"] : k \notin DOMAIN wread[w]

OutputKeys == {"output_path", "output_content"}

ImmutableKeys == {"job_id", "filename", "created_at", "user"}
\* worker w writes the record of the id it popped in this step
Writes(w, j) == InUpdate(w) /\ wjob[w] = j /\ wpc'[w] \notin {"upd_set", "sleep", "stopped"}

\* C13: a record changes only in the SET of the worker that popped its id;
\* that step leaves the queue and the other workers as they are; a record
\* appears only for an id a submission issued; job_id, filename, created_at
\* and user of a record never change.
C13_WorkerWritesOwnRecordOnly ==
    [][/\ \A j \in DOMAIN store :
             /\ j \in DOMAIN store'
             /\ \A k \in ImmutableKeys \cap DOMAIN store[j] :
                   k \in DOMAIN store'[j] /\ store'[j][k] = store[j][k]
             /\ store'[j] # store[j]
                   => \E w \in Workers :
                         /\ Writes(w, j)
                         /\ queue' = queue
                         /\ \A j2 \in DOMAIN store \ {j} : store'[j2] = store[j2]
                         /\ \A w2 \in Workers \ {w} :
                               wpc'[w2] = wpc[w2] /\ wjob'[w2] = wjob[w2]
       /\ \A j \in DOMAIN store' \ DOMAIN store :
             /\ origin'[j] \in {"upload", "content"}
             /\ \A w \in Workers : wpc'[w] = wpc[w]]_vars

C13_Witness ==
    \E j1, j2 \in DOMAIN store :
        /\ j1 # j2
        /\ Status(j1) = "failed"
        /\ ~Held(j1)
        /\ Status(j2) = "processing"
        /\ Held(j2)

\* C15: a record that is processing and whose id no worker holds (its worker
\* was stopped, or gave the iteration up) never changes, and its id is never
\* on the queue or in a worker's hand again.
C15_StrandedStaysProcessing ==
    [][\A j \in DOMAIN store :
          (Status(j) = "processing" /\ ~Held(j))
             => /\ j \in DOMAIN store'
                /\ store'[j] = store[j]
                /\ \A i \in 1..Len(queue') : queue'[i] # j
                /\ \A w \in Workers : wjob'[w] # j]_vars
    /\ [](\A w \in Workers, j \in DOMAIN store :
             (wjob[w] = j /\ Status(j) = "processing") => ~InQueue(j))

C15_Witness ==
    \E j \in DOMAIN store, p \in interrupted :
        /\ p[2] = j
        /\ Status(j) = "processing"
        /\ ~Held(j)
        /\ ~InQueue(j)
        /\ \E w2 \in Workers : wpc[w2] = "brpop"

\* ----------------------------------------- runs with no kill and no error
\* one step of worker w when no Redis command raises and no signal arrives
WorkerRun(w) ==
    \/ W_Brpop(w)
    \/ W_BrpopTimeout(w)
    \/ W_Get(w)
    \/ W_UpdGet(w)
    \/ W_UpdSet(w)
    \/ W_ProcessOk(w)
    \/ W_ProcessRaise(w)

UploadRun == \E u \in Uploaders : U_Begin(u) \/ U_Set(u) \/ U_Push(u)

NextLive ==
    \/ UploadRun
    \/ SubmitContent
    \/ PushOrphan
    \/ \E w \in Workers : WorkerRun(w)

\* every worker process keeps being scheduled
SpecLive == Init /\ [][NextLive]_vars /\ \A w \in Workers : WF_vars(WorkerRun(w))

\* C14: when every worker keeps running, none is stopped and no store command
\* fails, a job of upload_file whose id is on the queue is eventually
\* completed or failed.
C14_SubmittedJobEndsTerminal ==
    \A j \in JobIds :
        (origin[j] = "upload" /\ InQueue(j))
            ~> (j \in DOMAIN store /\ Status(j) \in Terminal)

C14_Witness ==
    \E j \in DOMAIN store :
        /\ origin[j] = "upload"
        /\ Status(j) \in Terminal
        /\ ~Held(j)

\* ------------------------------------------- app.py: job_status, list_jobs
\* A store at rest: no request handler and no worker is between two commands.
Quiescent ==
    /\ queue = <<>>
    /\ upc = [u \in Uploaders |-> "idle"]
    /\ ujob = [u \in Uploaders |-> 0]
    /\ wpc = [w \in Workers |-> "brpop"]
    /\ wjob = [w \in Workers |-> 0]
    /\ wcall = [w \in Workers |-> NoCall]
    /\ wexc = [w \in Workers |-> "none"]
    /\ wread = [w \in Workers |-> NoRead]
    /\ handled = {}
    /\ interrupted = {}

\* the submitters and the instants of creation of the records queried
QueryUsers == {"anonymous", "bob"}
Instants == {<<9, 5>>, <<10, 0>>, <<10, 5>>}

\* the records a job id can have: as upload_file wrote it, or after the worker
\* failed it for its missing content
QueryRecords(j) ==
    UNION {{UploadRecord(j, usr, IsoFormat(t)),
            UpdateJob(UploadRecord(j, usr, IsoFormat(t)), "failed",
                      [error |-> MissingMsg], Now)} :
           usr \in QueryUsers, t \in Instants}

QueryStores ==
    UNION {{s \in [D -> UNION {QueryRecords(j) : j \in D}] :
                \A j \in D : s[j] \in QueryRecords(j)} : D \in SUBSET JobIds}

\* a status query that reports an unknown id as a failed job
JobStatus_NotFoundAsFailed(s, job_id) ==
    IF job_id \notin DOMAIN s
    THEN [code |-> 200, body |-> [status |-> "failed", error |-> "Job not found"]]
    ELSE [code |-> 200, body |-> s[job_id]]

\* job_status, lines 298-309
JobStatus(s, job_id) ==
    IF job_id \notin DOMAIN s
    THEN [code |-> 404, body |-> [error |-> "Job not found"]]
    ELSE [code |-> 200, body |-> s[job_id]]

\* str < str of Python: the first differing character decides, a proper
\* prefix is smaller
StrLess(a, b) ==
    \E i \in 1..Len(b) :
        /\ \A k \in 1..(i - 1) : k <= Len(a) /\ a[k] = b[k]
        /\ i > Len(a) \/ a[i] < b[i]

\* the sort key at line 56: j.get('created_at', '')
SortKey(job) == IF "created_at" \in DOMAIN job THEN job["created_at"] ELSE <<>>

RECURSIVE InsertDesc_Ascending(_, _)
\* the insertion of a sort without reverse=True
InsertDesc_Ascending(sorted, job) ==
    IF sorted = <<>> THEN <<job>>
    ELSE IF StrLess(SortKey(job), SortKey(Head(sorted))) THEN <<job>> \o sorted
    ELSE <<Head(sorted)>> \o InsertDesc_Ascending(Tail(sorted), job)

RECURSIVE InsertDesc(_, _)
\* list.sort(reverse=True) is stable: a job goes behind every job whose key is
\* not smaller than its own
InsertDesc(sorted, job) ==
    IF sorted = <<>> THEN <<job>>
    ELSE IF StrLess(SortKey(Head(sorted)), SortKey(job)) THEN <<job>> \o sorted
    ELSE <<Head(sorted)>> \o InsertDesc(Tail(sorted), job)

RECURSIVE SortDesc(_)
SortDesc(jobs) ==
    IF jobs = <<>> THEN <<>>
    ELSE InsertDesc(SortDesc(SubSeq(jobs, 1, Len(jobs) - 1)), jobs[Len(jobs)])

\* an optional argument is <<>> when it is None and <<v>> when it is v
None == <<>>

\* line 52: not user_filter or job_data.get('user') == user_filter
Matches(job, user_filter) ==
    \/ user_filter = None
    \/ user_filter[1] = ""
    \/ "user" \in DOMAIN job /\ job["user"] = user_filter[1]

RECURSIVE Collect_SkipFailed(_, _, _)
\* a scan that leaves the failed jobs out of the listing
Collect_SkipFailed(s, scan, user_filter) ==
    IF scan = <<>> THEN <<>>
    ELSE (IF Matches(s[Head(scan)], user_filter) /\ s[Head(scan)]["status"] # "failed"
          THEN <<s[Head(scan)]>> ELSE <<>>)
         \o Collect_SkipFailed(s, Tail(scan), user_filter)

RECURSIVE Collect(_, _, _)
\* lines 46-53: the jobs appended, in the order SCAN returns their keys
Collect(s, scan, user_filter) ==
    IF scan = <<>> THEN <<>>
    ELSE (IF Matches(s[Head(scan)], user_filter) THEN <<s[Head(scan)]>> ELSE <<>>)
         \o Collect(s, Tail(scan), user_filter)

\* jobs[:limit]
SliceTo(jobs, n) ==
    IF n >= 0 THEN SubSeq(jobs, 1, IF n < Len(jobs) THEN n ELSE Len(jobs))
    ELSE SubSeq(jobs, 1, IF Len(jobs) + n > 0 THEN Len(jobs) + n ELSE 0)

\* fetch_jobs, lines 42-59
FetchJobs(s, scan, user_filter, limit) ==
    LET jobs == SortDesc(Collect(s, scan, user_filter))
    IN IF limit # None /\ limit[1] # 0 THEN SliceTo(jobs, limit[1]) ELSE jobs

RECURSIVE Orders(_)
\* the sequences that hold every element of D once
Orders(D) ==
    IF D = {} THEN {<<>>}
    ELSE UNION {{<<j>> \o rest : rest \in Orders(D \ {j})} : j \in D}

\* the orders in which SCAN can return the keys present: each key once
ScanOrders(s) == Orders(DOMAIN s)

\* the arguments of the requests
MaxLimit == 2
QueryIds == JobIds \cup {MaxJobs + 1}
QueryFilters == {None} \cup {<<usr>> : usr \in QueryUsers \cup {"", "carol"}}
QueryLimits == {None} \cup {<<n>> : n \in 0..MaxLimit}

InitQuery ==
    /\ store \in QueryStores
    /\ nextId = Cardinality(DOMAIN store)
    /\ origin = [j \in JobIds |-> IF j \in DOMAIN store THEN "upload" ELSE "none"]
    /\ Quiescent
    /\ fin = NoInput
    /\ fout = NoOutput

\* Each behaviour answers one request on the store it starts with.
\* GET /status/<job_id>
Q_Status(job_id) ==
    /\ fin' = [op |-> "status", job_id |-> job_id]
    /\ fout' = JobStatus(store, job_id)
    /\ UNCHANGED <<store, queue, nextId, origin, upc, ujob, wpc, wjob, wcall,
                   wexc, wread, handled, interrupted>>

\* GET /jobs?user=<user>&limit=<n>, lines 337-346
Q_List(scan, user_filter, limit) ==
    /\ fin' = [op |-> "list", scan |-> scan, user |-> user_filter, limit |-> limit]
    /\ LET jobs == FetchJobs(store, scan, user_filter, limit)
       IN fout' = [code |-> 200, body |-> [jobs |-> jobs, count |-> Len(jobs)]]
    /\ UNCHANGED <<store, queue, nextId, origin, upc, ujob, wpc, wjob, wcall,
                   wexc, wread, handled, interrupted>>

NextQuery ==
    \/ fin = NoInput /\ \E job_id \in QueryIds : Q_Status(job_id)
    \/ fin = NoInput /\ \E scan \in ScanOrders(store), user_filter \in QueryFilters,
                             limit \in QueryLimits :
                           Q_List(scan, user_filter, limit)

SpecQuery == InitQuery /\ [][NextQuery]_vars

\* C16: a status query for an id with no record answers 404 with the error
\* 'Job not found' and no status at all, so never a failed record; a query for
\* an id with a record answers with that record, so with its current status
\* whatever it is; and no query changes the store.
C16_StatusQueryDistinguishesNotFound ==
    /\ [](fin["op"] = "status" =>
            IF fin["job_id"] \in DOMAIN store
            THEN /\ fout["code"] = 200
                 /\ fout["body"] = store[fin["job_id"]]
                 /\ fout["body"]["status"] = Status(fin["job_id"])
            ELSE /\ fout["code"] = 404
                 /\ fout["body"] = [error |-> "Job not found"]
                 /\ "status" \notin DOMAIN fout["body"])
    /\ [][store' = store]_vars

\* both kinds of status query have been answered: an unknown id next to a
\* store holding a failed record, and the id of a failed record
C16_Witness ==
    /\ fin["op"] = "status"
    /\ \E j \in DOMAIN store : Status(j) = "failed"
    /\ \/ fin["job_id"] \notin DOMAIN store /\ fout["code"] = 404
       \/ fin["job_id"] \in DOMAIN store /\ Status(fin["job_id"]) = "failed"

\* the instant an isoformat string denotes, and the order of instants
FromIso(str) == <<str[1] * 10 + str[2], IF Len(str) = 2 THEN 0 ELSE str[4]>>
Later(t1, t2) == t1[1] > t2[1] \/ (t1[1] = t2[1] /\ t1[2] > t2[2])

\* most recent first: no job of a listing is created later than one before it
MostRecentFirst(jobs) ==
    \A i, k \in 1..Len(jobs) :
        i < k => ~Later(FromIso(jobs[k]["created_at"]), FromIso(jobs[i]["created_at"]))

\* the listing holds exactly the records of the ids in D, each once
ExactlyRecords(jobs, D) ==
    /\ Len(jobs) = Cardinality(D)
    /\ {jobs[i] : i \in 1..Len(jobs)} = {store[j] : j \in D}

\* C17 as stated: every unlimited listing is ordered by created_at, most recent
\* first; without a filter it holds every record, and with any filter, the
\* empty string included, exactly the records whose user equals the filter.
C17_AnyFilterExact ==
    (fin["op"] = "list" /\ fin["limit"] = None) =>
        /\ MostRecentFirst(fout["body"]["jobs"])
        /\ IF fin["user"] = None
           THEN ExactlyRecords(fout["body"]["jobs"], DOMAIN store)
           ELSE ExactlyRecords(fout["body"]["jobs"],
                    {j \in DOMAIN store : store[j]["user"] = fin["user"][1]})

\* C17, amended: every unlimited listing is ordered by created_at, most recent
\* first; with a non-empty filter it holds exactly the records whose user
\* equals the filter; without a filter, or with the empty string as the
\* filter, it holds every stored record.
C17_ListOrderedAndFiltered ==
    (fin["op"] = "list" /\ fin["limit"] = None) =>
        /\ MostRecentFirst(fout["body"]["jobs"])
        /\ fout["body"]["count"] = Len(fout["body"]["jobs"])
        /\ IF fin["user"] = None \/ fin["user"] = <<"">>
           THEN ExactlyRecords(fout["body"]["jobs"], DOMAIN store)
           ELSE ExactlyRecords(fout["body"]["jobs"],
                    {j \in DOMAIN store : store[j]["user"] = fin["user"][1]})

\* a listing under a non-empty filter that returned two records created at
\* different instants, which SCAN had returned oldest first
C17_Witness ==
    /\ fin["op"] = "list" /\ fin["limit"] = None
    /\ fin["user"] # None /\ fin["user"] # <<"">>
    /\ Len(fout["body"]["jobs"]) = 2
    /\ Later(FromIso(store[fin["scan"][2]]["created_at"]),
             FromIso(store[fin["scan"][1]]["created_at"]))
    /\ Later(FromIso(fout["body"]["jobs"][1]["created_at"]),
             FromIso(fout["body"]["jobs"][2]["created_at"]))

\* every unfiltered, unlimited listing of the store s, whatever order SCAN
\* returns the keys in, holds every record of s exactly once
ListedInFull(s) ==
    \A scan \in ScanOrders(s) :
        LET jobs == FetchJobs(s, scan, None, None)
        IN /\ Len(jobs) = Cardinality(DOMAIN s)
           /\ \A j \in DOMAIN s : \E i \in 1..Len(jobs) : jobs[i] = s[j]

\* C18: no step of an upload or of a worker removes a record; a record keeps
\* its job_id, filename, created_at and user through every step; a record
\* that is failed after a step carries an error string, and a failed record
\* stays failed with the same error string; and after every step that writes
\* the store, every unfiltered, unlimited listing holds every stored record.
\* (A step that leaves the store as it is leaves all of this as it was.)
C18_RecordsNeverDropped ==
    [][store' # store =>
        /\ \A j \in DOMAIN store :
            /\ j \in DOMAIN store'
            /\ \A k \in ImmutableKeys : k \in DOMAIN store'[j] /\ store'[j][k] = store[j][k]
            /\ Status(j) = "failed" =>
                   /\ store'[j]["status"] = "failed"
                   /\ store'[j]["error"] = store[j]["error"]
        /\ \A j \in DOMAIN store' :
            /\ ImmutableKeys \subseteq DOMAIN store'[j]
            /\ store'[j]["status"] = "failed" =>
                   /\ "error" \in DOMAIN store'[j]
                   /\ store'[j]["error"] \in {MissingMsg, ExcMsg, StoreMsg}
        /\ ListedInFull(store')]_vars

\* a failed record is still stored after its worker has gone on to a later job
C18_Witness ==
    \E j \in DOMAIN store, w \in Workers :
        /\ Status(j) = "failed"
        /\ ~Held(j)
        /\ wjob[w] # 0 /\ wjob[w] # j /\ wpc[w] = "upd_set"
        /\ \E k \in DOMAIN store : k # j

\* ------------------------------------------- nlp.py: count_syllables
\* A word is the sequence of its characters.
MaxWordLen == 3
Letters == {"a", "e", "y", "k", "l", "E", "K", "Y"}
ExampleWords == {<<"c", "a", "k", "e">>, <<"h", "e", "l", "l", "o">>,
                 <<"w", "o", "r", "l", "d">>, <<"Q", "u", "e", "u", "e">>}
Words == UNION {[1..n -> Letters] : n \in 1..MaxWordLen} \cup ExampleWords

\* str.lower(), on the capitals that occur
UpperToLower == [c \in {"A", "E", "K", "Q", "Y"} |->
                    CASE c = "A" -> "a" [] c = "E" -> "e" [] c = "K" -> "k"
                      [] c = "Q" -> "q" [] c = "Y" -> "y"]
LowerChar(c) == IF c \in DOMAIN UpperToLower THEN UpperToLower[c] ELSE c
Lower(word) == [i \in 1..Len(word) |-> LowerChar(word[i])]

\* char in 'aeiouy'
Vowels == {"a", "e", "i", "o", "u", "y"}

RECURSIVE SyllableLoop(_, _, _, _)
\* lines 73-77: the loop over the characters from position i on
SyllableLoop(word, i, syllable_count, previous_was_vowel) ==
    IF i > Len(word) THEN syllable_count
    ELSE SyllableLoop(word, i + 1,
             IF word[i] \in Vowels /\ ~previous_was_vowel
             THEN syllable_count + 1 ELSE syllable_count,
             word[i] \in Vowels)

\* word.endswith('e')
EndsWithE(word) == Len(word) > 0 /\ word[Len(word)] = "e"

\* count_syllables without the lines 84-85 that raise 0 to 1
CountSyllables_NoFloor(word) ==
    LET lowered == Lower(word)
        counted == SyllableLoop(lowered, 1, 0, FALSE)
    IN IF EndsWithE(lowered) THEN counted - 1 ELSE counted

\* count_syllables, lines 66-87
CountSyllables(word) ==
    LET lowered == Lower(word)
        counted == SyllableLoop(lowered, 1, 0, FALSE)
        adjusted == IF EndsWithE(lowered) THEN counted - 1 ELSE counted
    IN IF adjusted = 0 THEN 1 ELSE adjusted

\* the state a call of a text function starts in: the job store is empty and
\* at rest
NoJobs ==
    /\ store = [j \in {} |-> NoRead]
    /\ nextId = 0
    /\ origin = [j \in JobIds |-> "none"]
    /\ Quiescent

InitSyllables ==
    /\ NoJobs
    /\ fin \in {[op |-> "count_syllables", word |-> word] : word \in Words}
    /\ fout = NoOutput

\* the call returns
F_CountSyllables ==
    /\ fin["op"] = "count_syllables"
    /\ fout = NoOutput
    /\ fout' = [value |-> CountSyllables(fin["word"])]
    /\ UNCHANGED <<store, queue, nextId, origin, upc, ujob, wpc, wjob, wcall,
                   wexc, wread, handled, interrupted, fin>>

NextSyllables == F_CountSyllables

SpecSyllables == InitSyllables /\ [][NextSyllables]_vars

\* g: the maximal runs of consecutive vowels of a lower-cased word, counted by
\* their first positions
VowelRuns(word) ==
    Cardinality({i \in 1..Len(word) :
        /\ word[i] \in Vowels
        /\ i = 1 \/ word[i - 1] \notin Vowels})

\* C19: for every word, count_syllables returns max(1, g - e), g the number of
\* maximal vowel runs of the lower-cased word and e = 1 if it ends in 'e',
\* else 0; the result is at least 1; cake gives 1, hello 2 and world 1.
C19_SyllablesAreRunsFlooredAtOne ==
    (fin["op"] = "count_syllables" /\ fout # NoOutput) =>
        LET g == VowelRuns(Lower(fin["word"]))
            e == IF EndsWithE(Lower(fin["word"])) THEN 1 ELSE 0
        IN /\ fout["value"] = (IF g - e > 1 THEN g - e ELSE 1)
           /\ fout["value"] >= 1
           /\ fin["word"] = <<"c", "a", "k", "e">> => fout["value"] = 1
           /\ fin["word"] = <<"h", "e", "l", "l", "o">> => fout["value"] = 2
           /\ fin["word"] = <<"w", "o", "r", "l", "d">> => fout["value"] = 1

\* the floor has acted: a word written with a capital whose only vowel run is
\* its final 'e' has been counted as one syllable
C19_Witness ==
    /\ fin["op"] = "count_syllables"
    /\ fout # NoOutput
    /\ Lower(fin["word"]) # fin["word"]
    /\ EndsWithE(Lower(fin["word"]))
    /\ VowelRuns(Lower(fin["word"])) = 1
    /\ fout["value"] = 1

\* ------------------------------- nlp_pipeline.py: extract_entities
\* A sentence is the sequence of its tokens: words, which single spaces
\* separate, and punctuation marks, which stand against the word before
\* them.  No word of the vocabulary ends with another one.
MaxSentences == 2
EntityLimit == 20

\* the words of the vocabulary that [A-Z][a-z]+ matches
CapWords == {"The", "This", "Quick", "Brown", "Fox", "Anki", "Hello"}
CapSeq == <<"The", "This", "Quick", "Brown", "Fox", "Anki">>

\* str.lower() on a token
LowerTok(tok) ==
    CASE tok = "The" -> "the" [] tok = "This" -> "this" [] tok = "Quick" -> "quick"
      [] tok = "Brown" -> "brown" [] tok = "Fox" -> "fox" [] tok = "Anki" -> "anki"
      [] tok = "Hello" -> "hello"
      [] OTHER -> tok
LowerPhrase(phrase) == [i \in 1..Len(phrase) |-> LowerTok(phrase[i])]

\* line 164: the phrases that are skipped
Determiners == {<<"the">>, <<"this">>, <<"that">>, <<"these">>, <<"those">>, <<"a">>, <<"an">>}

\* the characters [^,.;] excludes
ContextStops == {",", ".", ";"}

RECURSIVE Phrases(_, _)
\* the two-word phrases that start with the word first, each followed by a
\* comma, from the i-th second word on
Phrases(first, i) ==
    IF i > Len(CapSeq) THEN <<>>
    ELSE <<first, CapSeq[i], ",">> \o Phrases(first, i + 1)

\* the sentences a call can be given
SentencePool ==
    {<<"Fox", "jumps">>,
     <<"Fox", "is", "a", "animal">>,
     <<"The", "Quick", "Brown", "Fox", "jumps">>,
     <<"The", "fox", "is", "an", "animal", ",", "Anki", "is", "a", "tool", ";", "Fox">>,
     <<"This", "is", "a", "test">>,
     <<"Quick", "Brown", ",", "Quick", "Brown", "Fox">>,
     <<"Fox", "jumps", ",">> \o Phrases("Quick", 1) \o Phrases("Brown", 1),
     <<"Fox", "is", "a", "animal", ",">> \o Phrases("Anki", 1) \o Phrases("Fox", 1),
     <<"Anki", "is", "an", "app", ",">> \o Phrases("Quick", 1) \o Phrases("The", 1)}
SentenceLists == UNION {[1..n -> SentencePool] : n \in 0..MaxSentences}

\* the last token of the run of capitalised words that starts at token i
RunEnd(sentence, i) ==
    CHOOSE k \in i..Len(sentence) :
        /\ \A m \in i..k : sentence[m] \in CapWords
        /\ k = Len(sentence) \/ sentence[k + 1] \notin CapWords

RECURSIVE CapRuns(_, _)
\* line 160: finditer of \b[A-Z][a-z]+(?:\s+[A-Z][a-z]+)*\b from token i on:
\* the maximal runs of capitalised words, left to right
CapRuns(sentence, i) ==
    IF i > Len(sentence) THEN <<>>
    ELSE IF sentence[i] \notin CapWords THEN CapRuns(sentence, i + 1)
    ELSE <<SubSeq(sentence, i, RunEnd(sentence, i))>>
         \o CapRuns(sentence, RunEnd(sentence, i) + 1)

\* the is-pattern of line 172 matches at token p, case ignored: the entity,
\* "is", "a" or "an", and at least one token of context
IsPatternAt(sentence, p, entity) ==
    /\ p + Len(entity) + 2 <= Len(sentence)
    /\ \A m \in 1..Len(entity) : LowerTok(sentence[p + m - 1]) = LowerTok(entity[m])
    /\ LowerTok(sentence[p + Len(entity)]) = "is"
    /\ LowerTok(sentence[p + Len(entity) + 1]) \in {"a", "an"}
    /\ sentence[p + Len(entity) + 2] \notin ContextStops

\* group(1).strip(): the tokens from token i up to the first of , . ;
ContextFrom(sentence, i) ==
    LET stops == {k \in i..Len(sentence) : sentence[k] \in ContextStops}
        last == IF stops = {} THEN Len(sentence)
                ELSE (CHOOSE k \in stops : \A k2 \in stops : k <= k2) - 1
    IN SubSeq(sentence, i, last)

\* lines 167-177: the tuple appended for a match
EntityTuple(sentence, entity) ==
    LET found == {p \in 1..Len(sentence) : IsPatternAt(sentence, p, entity)}
    IN IF found # {}
       THEN LET p == CHOOSE q \in found : \A q2 \in found : q <= q2
            IN <<entity, "TERM", ContextFrom(sentence, p + Len(entity) + 2)>>
       ELSE <<entity, "UNKNOWN", sentence>>

RECURSIVE RunTuples(_, _, _)
\* lines 161-177: the loop over the matches of one sentence
RunTuples(sentence, runs, i) ==
    IF i > Len(runs) THEN <<>>
    ELSE (IF LowerPhrase(runs[i]) \in Determiners THEN <<>>
          ELSE <<EntityTuple(sentence, runs[i])>>)
         \o RunTuples(sentence, runs, i + 1)

RECURSIVE EntityMatches(_, _)
\* lines 158-177: the list entities after the loop over the sentences
EntityMatches(sentences, i) ==
    IF i > Len(sentences) THEN <<>>
    ELSE RunTuples(sentences[i], CapRuns(sentences[i], 1), 1)
         \o EntityMatches(sentences, i + 1)

RECURSIVE UniqueEntities_KeepLast(_, _, _)
\* a deduplication that replaces the tuple kept by the later one
UniqueEntities_KeepLast(entities, i, seen) ==
    IF i > Len(entities) THEN <<>>
    ELSE IF \E k \in (i + 1)..Len(entities) : entities[k][1] = entities[i][1]
         THEN (IF entities[i][1] \in seen THEN <<>>
               ELSE <<entities[CHOOSE k \in (i + 1)..Len(entities) :
                         /\ entities[k][1] = entities[i][1]
                         /\ \A k2 \in (k + 1)..Len(entities) :
                                entities[k2][1] # entities[i][1]]>>)
              \o UniqueEntities_KeepLast(entities, i + 1, seen \cup {entities[i][1]})
         ELSE (IF entities[i][1] \in seen THEN <<>> ELSE <<entities[i]>>)
              \o UniqueEntities_KeepLast(entities, i + 1, seen \cup {entities[i][1]})

RECURSIVE UniqueEntities(_, _, _)
\* lines 180-185: the loop that fills unique_entities, from tuple i on
UniqueEntities(entities, i, seen) ==
    IF i > Len(entities) THEN <<>>
    ELSE (IF entities[i][1] \in seen THEN <<>> ELSE <<entities[i]>>)
         \o UniqueEntities(entities, i + 1, seen \cup {entities[i][1]})

\* extract_entities, lines 148-187
ExtractEntities(sentences) ==
    LET unique_entities == UniqueEntities(EntityMatches(sentences, 1), 1, {})
    IN SubSeq(unique_entities, 1,
              IF Len(unique_entities) < EntityLimit THEN Len(unique_entities)
              ELSE EntityLimit)

InitEntities ==
    /\ NoJobs
    /\ fin \in {[op |-> "extract_entities", sentences |-> sentences] :
                   sentences \in SentenceLists}
    /\ fout = NoOutput

\* the call returns
F_ExtractEntities ==
    /\ fin["op"] = "extract_entities"
    /\ fout = NoOutput
    /\ fout' = [value |-> ExtractEntities(fin["sentences"])]
    /\ UNCHANGED <<store, queue, nextId, origin, upc, ujob, wpc, wjob, wcall,
                   wexc, wread, handled, interrupted, fin>>

NextEntities == F_ExtractEntities

SpecEntities == InitEntities /\ [][NextEntities]_vars

\* the index, in the list occ of the occurrences in input order, of the first
\* occurrence of a surface form
FirstOccurrence(occ, form) ==
    CHOOSE i \in 1..Len(occ) :
        /\ occ[i][1] = form
        /\ \A k \in 1..(i - 1) : occ[k][1] # form

\* C20: for every list of sentences, extract_entities returns at most 20
\* entities; no two have the same surface form; each is the tuple of the first
\* occurrence of its surface form in the input, with the type and the context
\* of that occurrence; they stand in the order of these first occurrences; and
\* no surface form is left out in front of one that is returned or while
\* fewer than 20 are returned.
C20_EntitiesUniqueFirstOccurrence ==
    (fin["op"] = "extract_entities" /\ fout # NoOutput) =>
        LET out == fout["value"]
            occ == EntityMatches(fin["sentences"], 1)
            forms == {occ[i][1] : i \in 1..Len(occ)}
        IN /\ Len(out) <= 20
           /\ \A i, k \in 1..Len(out) : i # k => out[i][1] # out[k][1]
           /\ \A i \in 1..Len(out) :
                  /\ out[i][1] \in forms
                  /\ out[i] = occ[FirstOccurrence(occ, out[i][1])]
           /\ \A i, k \in 1..Len(out) :
                  i < k => FirstOccurrence(occ, out[i][1]) < FirstOccurrence(occ, out[k][1])
           /\ Len(out) = (IF Cardinality(forms) < 20 THEN Cardinality(forms) ELSE 20)
           /\ \A form \in forms :
                  (\A i \in 1..Len(out) : out[i][1] # form)
                      => /\ Len(out) = 20
                         /\ FirstOccurrence(occ, form) > FirstOccurrence(occ, out[20][1])

\* the limit and the deduplication have both acted: the input has more than 20
\* surface forms, 20 are returned, and one of them occurs a second time in the
\* input with another type than the one returned
C20_Witness ==
    /\ fin["op"] = "extract_entities"
    /\ fout # NoOutput
    /\ Len(fout["value"]) = 20
    /\ LET occ == EntityMatches(fin["sentences"], 1)
       IN /\ Cardinality({occ[i][1] : i \in 1..Len(occ)}) > 20
          /\ \E i \in 1..Len(fout["value"]), k \in 1..Len(occ) :
                 /\ occ[k][1] = fout["value"][i][1]
                 /\ occ[k][2] # fout["value"][i][2]

\* ------------------------------------------- nlp_pipeline.py: normalize
\* A text is the sequence of its tokens, as a sentence is; a punctuation mark
\* stands against the token before it and white space follows it when a word
\* comes next.
MaxTextLen == 3
Terminators == {".", "!", "?"}
PunctuationMarks == Terminators \cup {",", ";"}
TextTokens == {"Hello", "world", "Fox", "is", "a", ".", ","}
ScenarioText ==
    <<"Hello", "world", ".", "The", "Quick", "Brown", "Fox", "jumps", ".",
      "Fox", "is", "a", "animal", ".">>
Texts == UNION {[1..n -> TextTokens] : n \in 0..MaxTextLen} \cup {ScenarioText}

\* [.!?]+\s+ matches the terminators from token i to token k: white space
\* follows token k, so a word does
SplitsAt(text, i, k) ==
    /\ \A m \in i..k : text[m] \in Terminators
    /\ k < Len(text)
    /\ text[k + 1] \notin PunctuationMarks

RECURSIVE SplitSentences(_, _, _)
\* re.split(r'[.!?]+\s+', text) from token i on, current the piece being
\* read; lines 36-37 drop the empty pieces
SplitSentences(text, i, current) ==
    IF i > Len(text) THEN (IF current = <<>> THEN <<>> ELSE <<current>>)
    ELSE IF \E k \in i..Len(text) : SplitsAt(text, i, k)
         THEN LET k == CHOOSE k2 \in i..Len(text) :
                          /\ SplitsAt(text, i, k2)
                          /\ \A k3 \in (k2 + 1)..Len(text) : ~SplitsAt(text, i, k3)
              IN (IF current = <<>> THEN <<>> ELSE <<current>>)
                 \o SplitSentences(text, k + 1, <<>>)
         ELSE SplitSentences(text, i + 1, Append(current, text[i]))

\* len(text.split()): the chunks white space separates
WordCount(text) ==
    Cardinality({i \in 1..Len(text) : i = 1 \/ text[i] \notin PunctuationMarks})

\* TextNormalizer.normalize, lines 25-47 (char_count is left out)
Normalize(text) ==
    LET sentences == SplitSentences(text, 1, <<>>)
    IN [sentences |-> sentences,
        word_count |-> WordCount(text),
        sentence_count |-> Len(sentences)]

InitScenario ==
    /\ NoJobs
    /\ fin \in {[op |-> "normalize", text |-> text] : text \in Texts}
    /\ fout = NoOutput

\* stage 1 of process_pipeline: normalize(text)
F_Normalize ==
    /\ fin["op"] = "normalize"
    /\ fout = NoOutput
    /\ fout' = [normalized |-> Normalize(fin["text"])]
    /\ UNCHANGED <<store, queue, nextId, origin, upc, ujob, wpc, wjob, wcall,
                   wexc, wread, handled, interrupted, fin>>

\* stage 4 of process_pipeline: extract_entities on the sentences of stage 1
F_NormalizedEntities ==
    /\ fin["op"] = "normalize"
    /\ DOMAIN fout = {"normalized"}
    /\ fout' = [normalized |-> fout["normalized"],
                entities |-> ExtractEntities(fout["normalized"]["sentences"])]
    /\ UNCHANGED <<store, queue, nextId, origin, upc, ujob, wpc, wjob, wcall,
                   wexc, wread, handled, interrupted, fin>>

NextScenario == F_Normalize \/ F_NormalizedEntities

SpecScenario == InitScenario /\ [][NextScenario]_vars

\* C21: for the text "Hello world. The Quick Brown Fox jumps. Fox is a
\* animal." the normalizer yields exactly 3 sentences, and the entities
\* extracted from them hold one with the surface form "Quick Brown Fox" and
\* the entity ("Fox", "TERM", "animal").
C21_ScenarioEntities ==
    (fin["op"] = "normalize" /\ fin["text"] = ScenarioText
        /\ "entities" \in DOMAIN fout) =>
        /\ Len(fout["normalized"]["sentences"]) = 3
        /\ fout["normalized"]["sentence_count"] = 3
        /\ \E i \in 1..Len(fout["entities"]) :
               fout["entities"][i][1] = <<"Quick", "Brown", "Fox">>
        /\ \E i \in 1..Len(fout["entities"]) :
               fout["entities"][i] = <<<<"Fox">>, "TERM", <<"animal">>>>

\* ------------------------------- nlp_pipeline.py: extract_keywords
MaxTopN == 2

\* the stopwords of lines 100-102
KeywordStopwords ==
    {"the", "a", "an", "and", "or", "but", "in", "on", "at", "to", "for",
     "of", "with", "is", "are", "was", "were", "be", "been", "being", "this",
     "that", "these", "those", "it", "its", "as", "by", "from", "has", "have"}

\* the words of the vocabulary with len(w) <= 2
ShortTokens == {"a", "an", "is", "it", "go", "ox", "up"}

\* the sentences a call can be given; no word that passes the filter is part
\* of another word of the vocabulary
KeywordPool ==
    {<<"Fox", "jumps">>,
     <<"the", "fox", "is", "a", "cat">>,
     <<"dog", "dog", "jumps", ",", "cat">>,
     <<"the", "is", "a", "an">>,
     <<"Anki", "cards">>,
     <<"cat", "dog", "fox", ".">>,
     <<"go", "ox", "up">>}
KeywordLists == UNION {[1..n -> KeywordPool] : n \in 0..MaxSentences}
TopNs == 1..MaxTopN

\* lines 107-108 and 122-123: the words of a sentence that pass the filter,
\* lower-cased
FilteredWords(sentence) ==
    LowerPhrase(SelectSeq(sentence, LAMBDA tok :
        /\ tok \notin PunctuationMarks
        /\ tok \notin ShortTokens
        /\ LowerTok(tok) \notin KeywordStopwords))

RECURSIVE DocWords(_, _)
\* lines 105-109: doc_words, from sentence i on
DocWords(sentences, i) ==
    IF i > Len(sentences) THEN <<>>
    ELSE FilteredWords(sentences[i]) \o DocWords(sentences, i + 1)

RECURSIVE FirstSeen(_, _, _)
\* the keys of Counter(doc_words), in the order of insertion
FirstSeen(doc_words, i, seen) ==
    IF i > Len(doc_words) THEN <<>>
    ELSE (IF doc_words[i] \in seen THEN <<>> ELSE <<doc_words[i]>>)
         \o FirstSeen(doc_words, i + 1, seen \cup {doc_words[i]})

\* Counter(doc_words)[word]
TermCount(doc_words, word) ==
    Cardinality({i \in 1..Len(doc_words) : doc_words[i] = word})

\* lines 121-126: df[word], the sentences that hold the word
DocFrequency(sentences, word) ==
    Cardinality({i \in 1..Len(sentences) :
        \E k \in 1..Len(FilteredWords(sentences[i])) :
            FilteredWords(sentences[i])[k] = word})

\* A score is kept as the numbers it is computed from: it stands for
\* (count / total) * ln(docs / (df + 1)), lines 116, 129 and 132.
TfIdf(sentences, doc_words, word) ==
    [count |-> TermCount(doc_words, word), total |-> Len(doc_words),
     docs |-> Len(sentences), df |-> DocFrequency(sentences, word)]

RECURSIVE Power(_, _)
Power(base, exp) == IF exp = 0 THEN 1 ELSE base * Power(base, exp - 1)

\* a < b for two scores of one call (equal total):
\* c1 * ln(n / d1) < c2 * ln(n / d2) iff (n / d1)^c1 < (n / d2)^c2
ScoreLess(a, b) ==
    Power(a["docs"], a["count"]) * Power(b["df"] + 1, b["count"])
        < Power(b["docs"], b["count"]) * Power(a["df"] + 1, a["count"])

\* a score below 0: ln(docs / (df + 1)) < 0
ScoreNegative(a) == a["count"] > 0 /\ a["docs"] < a["df"] + 1

RECURSIVE InsertByScore_BeforeEqual(_, _)
\* the insertion of a sort that puts an item in front of the items of equal
\* score
InsertByScore_BeforeEqual(sorted, item) ==
    IF sorted = <<>> THEN <<item>>
    ELSE IF ~ScoreLess(item[2], Head(sorted)[2]) THEN <<item>> \o sorted
    ELSE <<Head(sorted)>> \o InsertByScore_BeforeEqual(Tail(sorted), item)

RECURSIVE InsertByScore(_, _)
\* sorted(..., key=lambda x: x[1], reverse=True) is stable: an item goes behind
\* every item whose score is not smaller than its own
InsertByScore(sorted, item) ==
    IF sorted = <<>> THEN <<item>>
    ELSE IF ScoreLess(Head(sorted)[2], item[2]) THEN <<item>> \o sorted
    ELSE <<Head(sorted)>> \o InsertByScore(Tail(sorted), item)

RECURSIVE SortByScore(_)
SortByScore(items) ==
    IF items = <<>> THEN <<>>
    ELSE InsertByScore(SortByScore(SubSeq(items, 1, Len(items) - 1)), items[Len(items)])

\* line 140: the first sentence that holds the term, "" when none does
KeywordContext(sentences, term) ==
    LET holding == {i \in 1..Len(sentences) :
                       \E k \in 1..Len(sentences[i]) : LowerTok(sentences[i][k]) = term}
    IN IF holding = {} THEN <<>>
       ELSE sentences[CHOOSE i \in holding : \A i2 \in holding : i <= i2]

\* extract_keywords, lines 90-142
ExtractKeywords(sentences, top_n) ==
    LET doc_words == DocWords(sentences, 1)
        terms == FirstSeen(doc_words, 1, {})
        tfidf == [i \in 1..Len(terms) |->
                     <<terms[i], TfIdf(sentences, doc_words, terms[i])>>]
        top_terms == SliceTo(SortByScore(tfidf), top_n)
    IN IF sentences = <<>> \/ doc_words = <<>> THEN <<>>
       ELSE [i \in 1..Len(top_terms) |->
                <<top_terms[i][1], top_terms[i][2],
                  KeywordContext(sentences, top_terms[i][1])>>]

InitKeywords ==
    /\ NoJobs
    /\ fin \in {[op |-> "extract_keywords", sentences |-> sentences, top_n |-> top_n] :
                   sentences \in KeywordLists, top_n \in TopNs}
    /\ fout = NoOutput

\* the call returns
F_ExtractKeywords ==
    /\ fin["op"] = "extract_keywords"
    /\ fout = NoOutput
    /\ fout' = [value |-> ExtractKeywords(fin["sentences"], fin["top_n"])]
    /\ UNCHANGED <<store, queue, nextId, origin, upc, ujob, wpc, wjob, wcall,
                   wexc, wread, handled, interrupted, fin>>

NextKeywords == F_ExtractKeywords

SpecKeywords == InitKeywords /\ [][NextKeywords]_vars

\* the position at which a term is first met in the filtered tokens
FirstMet(doc_words, term) ==
    CHOOSE i \in 1..Len(doc_words) :
        /\ doc_words[i] = term
        /\ \A k \in 1..(i - 1) : doc_words[k] # term

\* C22: for every list of sentences and every positive top_n, extract_keywords
\* returns at most top_n keywords; no keyword has a smaller score than one
\* behind it; of two keywords with equal score the one met first in the
\* document stands first; every term occurs in the filtered tokens, so its
\* term frequency is above 0; and the result is empty when the list is empty
\* or no token passes the filter.
C22_KeywordsSortedStable ==
    (fin["op"] = "extract_keywords" /\ fout # NoOutput) =>
        LET out == fout["value"]
            doc_words == DocWords(fin["sentences"], 1)
        IN /\ Len(out) <= fin["top_n"]
           /\ \A i, k \in 1..Len(out) :
                  i < k =>
                      /\ ~ScoreLess(out[i][2], out[k][2])
                      /\ ~ScoreLess(out[k][2], out[i][2]) =>
                             FirstMet(doc_words, out[i][1]) < FirstMet(doc_words, out[k][1])
           /\ \A i \in 1..Len(out) :
                  /\ \E k \in 1..Len(doc_words) : doc_words[k] = out[i][1]
                  /\ out[i][2]["count"] > 0
           /\ (fin["sentences"] = <<>> \/ doc_words = <<>>) => out = <<>>

\* two keywords of equal score have been returned, and a term of the document
\* has been cut off by top_n
C22_Witness ==
    /\ fin["op"] = "extract_keywords"
    /\ fout # NoOutput
    /\ Len(fout["value"]) = fin["top_n"]
    /\ Cardinality({DocWords(fin["sentences"], 1)[i] :
                       i \in 1..Len(DocWords(fin["sentences"], 1))}) > fin["top_n"]
    /\ \E i, k \in 1..Len(fout["value"]) :
           /\ i < k
           /\ ~ScoreLess(fout["value"][k][2], fout["value"][i][2])
           /\ ~ScoreLess(fout["value"][i][2], fout["value"][k][2])

\* C23: every keyword returned by extract_keywords has a score that is not
\* below 0, also a term that occurs in every sentence and a term of a document
\* of one sentence.
C23_ScoresNonNegative ==
    (fin["op"] = "extract_keywords" /\ fout # NoOutput) =>
        \A i \in 1..Len(fout["value"]) : ~ScoreNegative(fout["value"][i][2])

\* ------------------------------- nlp_pipeline.py: assemble_deck
MaxKeywordsIn == 9
MaxEntitiesIn == 6
KeywordCards == 8
EntityCards == 5

\* the strings of the arguments; the first term and the first entity are the
\* empty string
TermNames == <<"", "k2", "k3", "k4", "k5", "k6", "k7", "k8", "k9", "k10", "k11", "k12">>
EntityNames == <<"", "E2", "E3", "E4", "E5", "E6", "E7", "E8", "E9", "E10">>
Summaries == {"", "Fox jumps."}
Filenames == {"", Filename}

\* a keyword list and an entity list of n items; every second keyword has no
\* context sentence
KeywordsIn(n) ==
    [i \in 1..n |-> <<TermNames[i], i, IF i % 2 = 0 THEN "" ELSE "Fox jumps">>]
EntitiesIn(n) ==
    [i \in 1..n |-> <<EntityNames[i], IF i % 2 = 0 THEN "TERM" ELSE "UNKNOWN", "animal">>]

\* An f-string is the sequence of its literal and formatted pieces.
SummaryCard(summary, filename) ==
    <<<<"Summarize the key points from ", filename>>, <<summary>>>>
KeywordCard(keyword, filename) ==
    <<<<"What is ", keyword[1], "?">>,
      IF keyword[3] # "" THEN <<keyword[3]>> ELSE <<"A key term from ", filename>>>>
EntityCard(entity) ==
    <<<<"Define or describe: ", entity[1]>>, <<entity[3]>>>>

\* assemble_deck with `for term, score, context in keywords`
AssembleDeck_EveryKeyword(summary, keywords, entities, filename) ==
    (IF summary # "" THEN <<SummaryCard(summary, filename)>> ELSE <<>>)
    \o [i \in 1..Len(keywords) |-> KeywordCard(keywords[i], filename)]
    \o [i \in 1..Len(SliceTo(entities, EntityCards)) |-> EntityCard(entities[i])]

\* assemble_deck, lines 193-226
AssembleDeck(summary, keywords, entities, filename) ==
    (IF summary # "" THEN <<SummaryCard(summary, filename)>> ELSE <<>>)
    \o [i \in 1..Len(SliceTo(keywords, KeywordCards)) |-> KeywordCard(keywords[i], filename)]
    \o [i \in 1..Len(SliceTo(entities, EntityCards)) |-> EntityCard(entities[i])]

InitDeck ==
    /\ NoJobs
    /\ fin \in {[op |-> "assemble_deck", summary |-> summary, keywords |-> KeywordsIn(nk),
                 entities |-> EntitiesIn(ne), filename |-> filename] :
                   summary \in Summaries, nk \in 0..MaxKeywordsIn,
                   ne \in 0..MaxEntitiesIn, filename \in Filenames}
    /\ fout = NoOutput

\* the call returns
F_AssembleDeck ==
    /\ fin["op"] = "assemble_deck"
    /\ fout = NoOutput
    /\ fout' = [value |-> AssembleDeck(fin["summary"], fin["keywords"],
                                       fin["entities"], fin["filename"])]
    /\ UNCHANGED <<store, queue, nextId, origin, upc, ujob, wpc, wjob, wcall,
                   wexc, wread, handled, interrupted, fin>>

NextDeck == F_AssembleDeck

SpecDeck == InitDeck /\ [][NextDeck]_vars

\* a string built of pieces is empty when every piece is
NonEmptyText(pieces) == \E i \in 1..Len(pieces) : pieces[i] # ""

\* C24: assemble_deck returns one summary card if and only if the summary is
\* not empty, then a card for each of the first min(8, number of keywords)
\* keywords in input order, then a card for each of the first
\* min(5, number of entities) entities in input order, and nothing else; the
\* front of every card is not empty.
C24_DeckOrderAndLimits ==
    (fin["op"] = "assemble_deck" /\ fout # NoOutput) =>
        LET out == fout["value"]
            s == IF fin["summary"] # "" THEN 1 ELSE 0
            nk == IF Len(fin["keywords"]) < 8 THEN Len(fin["keywords"]) ELSE 8
            ne == IF Len(fin["entities"]) < 5 THEN Len(fin["entities"]) ELSE 5
        IN /\ Len(out) = s + nk + ne
           /\ s = 1 => /\ out[1][1] = <<"Summarize the key points from ", fin["filename"]>>
                       /\ out[1][2] = <<fin["summary"]>>
           /\ \A i \in 1..nk :
                  /\ out[s + i][1] = <<"What is ", fin["keywords"][i][1], "?">>
                  /\ fin["keywords"][i][3] # "" => out[s + i][2] = <<fin["keywords"][i][3]>>
                  /\ fin["keywords"][i][3] = "" =>
                         out[s + i][2] = <<"A key term from ", fin["filename"]>>
           /\ \A i \in 1..ne :
                  /\ out[s + nk + i][1] = <<"Define or describe: ", fin["entities"][i][1]>>
                  /\ out[s + nk + i][2] = <<fin["entities"][i][3]>>
           /\ \A i \in 1..Len(out) : NonEmptyText(out[i][1])

\* a deck made of a summary, more than 8 keywords and more than 5 entities,
\* for a file without a name
C24_Witness ==
    /\ fin["op"] = "assemble_deck"
    /\ fout # NoOutput
    /\ fin["summary"] # ""
    /\ fin["filename"] = ""
    /\ Len(fin["keywords"]) > 8
    /\ Len(fin["entities"]) > 5
    /\ Len(fout["value"]) = 14

\* ------------------------------------ nlp.py: flesch_kincaid_analysis
\* A token of a text is the sequence of its characters.  sent_tokenize and
\* word_tokenize are library functions: word_tokenize is taken to return the
\* tokens of the text, sent_tokenize one sentence for each run of terminators
\* and one for the tokens behind the last run, so none for the empty text.
MaxRuns == 2
FkTokens ==
    {<<"c", "a", "t">>, <<"c", "a", "k", "e">>, <<"K", "a", "l", "e">>,
     <<"h", "e", "l", "l", "o">>, <<"o", "x">>, <<".">>, <<"7">>}
FkTexts == UNION {[1..n -> FkTokens] : n \in 0..MaxTextLen}

\* len(sent_tokenize(text))
SentenceCount(text) ==
    Cardinality({i \in 1..Len(text) :
        \/ text[i] = <<".">> /\ (i = Len(text) \/ text[i + 1] # <<".">>)
        \/ text[i] # <<".">> /\ i = Len(text)})

\* str.isalpha()
NonAlphaChars == {".", "!", "?", ",", ";", "0", "1", "2", "3", "4", "5", "6", "7", "8", "9"}
IsAlpha(tok) == tok # <<>> /\ \A i \in 1..Len(tok) : tok[i] \notin NonAlphaChars

RECURSIVE AlphaWords(_, _)
\* line 317: the alphabetic tokens, lower-cased, from token i on
AlphaWords(text, i) ==
    IF i > Len(text) THEN <<>>
    ELSE (IF IsAlpha(text[i]) THEN <<Lower(text[i])>> ELSE <<>>)
         \o AlphaWords(text, i + 1)

RECURSIVE TotalSyllables(_, _)
\* line 322: sum(self.count_syllables(word) for word in words)
TotalSyllables(words, i) ==
    IF i > Len(words) THEN 0
    ELSE CountSyllables(words[i]) + TotalSyllables(words, i + 1)

\* a / b of Python; a quotient is kept as its two numbers
Quotient(a, b) ==
    IF b = 0 THEN [raised |-> "ZeroDivisionError"] ELSE [num |-> a, den |-> b]
Zero == [num |-> 0, den |-> 1]

\* lines 326-330: 0.39 * (W / S) + 11.8 * (Y / W) - 15.59, over 100 * S * W
FkGrade(S, W, Y) ==
    IF S > 0 /\ W > 0
    THEN Quotient(39 * W * W + 1180 * Y * S - 1559 * S * W, 100 * S * W)
    ELSE Zero

\* lines 334-343: the entry of word_complexity for a word
Complexity(word) ==
    [word |-> word, syllables |-> CountSyllables(word), length |-> Len(word),
     complexity_score |-> CountSyllables(word) * Len(word)]

RECURSIVE InsertByComplexity(_, _)
\* sorted(..., key=lambda x: x[1]['complexity'], reverse=True) is stable
InsertByComplexity(sorted, item) ==
    IF sorted = <<>> THEN <<item>>
    ELSE IF Head(sorted)["complexity_score"] < item["complexity_score"]
         THEN <<item>> \o sorted
    ELSE <<Head(sorted)>> \o InsertByComplexity(Tail(sorted), item)

RECURSIVE SortByComplexity(_)
SortByComplexity(items) ==
    IF items = <<>> THEN <<>>
    ELSE InsertByComplexity(SortByComplexity(SubSeq(items, 1, Len(items) - 1)),
                            items[Len(items)])

\* the words `for word in set(words)` visits with len(word) > 2
LongWords(words) == {words[i] : i \in {k \in 1..Len(words) : Len(words[k]) > 2}}

\* lines 332-358: complex_words, when the set is iterated in the order visit
ComplexWords(visit, top_n) ==
    SliceTo(SortByComplexity([i \in 1..Len(visit) |-> Complexity(visit[i])]), top_n)

\* an analysis whose average of words per sentence is not guarded
FleschAnalysis_UnguardedAverage(text, top_n, visit) ==
    LET words == AlphaWords(text, 1)
        S == SentenceCount(text)
        W == Len(words)
        Y == TotalSyllables(words, 1)
    IN IF S = 0 THEN Quotient(W, S)
       ELSE [flesch_kincaid_grade |-> FkGrade(S, W, Y),
             total_sentences |-> S, total_words |-> W, total_syllables |-> Y,
             avg_words_per_sentence |-> Quotient(W, S),
             avg_syllables_per_word |-> IF W > 0 THEN Quotient(Y, W) ELSE Zero,
             complex_words |-> ComplexWords(visit, top_n)]

\* flesch_kincaid_analysis, lines 300-368; round(x, 2) is left unapplied
FleschAnalysis(text, top_n, visit) ==
    LET words == AlphaWords(text, 1)
        S == SentenceCount(text)
        W == Len(words)
        Y == TotalSyllables(words, 1)
    IN [flesch_kincaid_grade |-> FkGrade(S, W, Y),
        total_sentences |-> S, total_words |-> W, total_syllables |-> Y,
        avg_words_per_sentence |-> IF S > 0 THEN Quotient(W, S) ELSE Zero,
        avg_syllables_per_word |-> IF W > 0 THEN Quotient(Y, W) ELSE Zero,
        complex_words |-> ComplexWords(visit, top_n)]

InitFlesch ==
    /\ NoJobs
    /\ fin \in {[op |-> "flesch_kincaid_analysis", text |-> text, top_n |-> top_n] :
                   text \in FkTexts, top_n \in TopNs}
    /\ fout = [runs |-> <<>>]

\* one run of the analysis returns; the order in which the set of words is
\* iterated depends on the hash seed of the process, so any order can occur
F_Flesch ==
    /\ fin["op"] = "flesch_kincaid_analysis"
    /\ Len(fout["runs"]) < MaxRuns
    /\ \E visit \in Orders(LongWords(AlphaWords(fin["text"], 1))) :
           fout' = [runs |-> Append(fout["runs"],
                                    FleschAnalysis(fin["text"], fin["top_n"], visit))]
    /\ UNCHANGED <<store, queue, nextId, origin, upc, ujob, wpc, wjob, wcall,
                   wexc, wread, handled, interrupted, fin>>

NextFlesch == F_Flesch

SpecFlesch == InitFlesch /\ [][NextFlesch]_vars

\* C25: no run of flesch_kincaid_analysis divides by zero, and a run on a text
\* with no sentence or no alphabetic word returns the grade level 0 and both
\* averages 0.
C25_DegenerateTextGradeZero ==
    fin["op"] = "flesch_kincaid_analysis" =>
        \A i \in 1..Len(fout["runs"]) :
            LET r == fout["runs"][i]
            IN /\ "raised" \notin DOMAIN r
               /\ "raised" \notin DOMAIN r["flesch_kincaid_grade"]
               /\ "raised" \notin DOMAIN r["avg_words_per_sentence"]
               /\ "raised" \notin DOMAIN r["avg_syllables_per_word"]
               /\ (SentenceCount(fin["text"]) = 0
                     \/ \A k \in 1..Len(fin["text"]) : ~IsAlpha(fin["text"][k])) =>
                      /\ r["flesch_kincaid_grade"]["num"] = 0
                      /\ r["avg_words_per_sentence"]["num"] = 0
                      /\ r["avg_syllables_per_word"]["num"] = 0

\* the analysis has returned for a text of digits and punctuation only, which
\* has a sentence and no alphabetic word
C25_Witness ==
    /\ fin["op"] = "flesch_kincaid_analysis"
    /\ fin["text"] # <<>>
    /\ Len(fout["runs"]) > 0
    /\ fout["runs"][1]["total_sentences"] > 0
    /\ fout["runs"][1]["total_words"] = 0

\* C26: two runs on the same text and top_n return the same complex words in
\* the same order; the list has at most top_n words, all longer than 2
\* characters, and no word has a smaller complexity than one behind it.
C26_ComplexWordsDeterministic ==
    fin["op"] = "flesch_kincaid_analysis" =>
        /\ \A i, k \in 1..Len(fout["runs"]) :
               fout["runs"][i]["complex_words"] = fout["runs"][k]["complex_words"]
        /\ \A i \in 1..Len(fout["runs"]) :
               LET cw == fout["runs"][i]["complex_words"]
               IN /\ Len(cw) <= fin["top_n"]
                  /\ \A k \in 1..Len(cw) : Len(cw[k]["word"]) > 2
                  /\ \A k, m \in 1..Len(cw) :
                         k < m => cw[k]["complexity_score"] >= cw[m]["complexity_score"]

\* C30: for every limit n >= 0, the listing has at most n records and holds
\* the n most recently created records that match the filter, all of them
\* when fewer than n match; this includes n = 0.
C30_LimitKeepsMostRecent ==
    (fin["op"] = "list" /\ fin["limit"] # None) =>
        LET jobs == fout["body"]["jobs"]
            n == fin["limit"][1]
            matching == {j \in DOMAIN store : Matches(store[j], fin["user"])}
        IN /\ Len(jobs) <= n
           /\ Len(jobs) = (IF Cardinality(matching) < n THEN Cardinality(matching) ELSE n)
           /\ MostRecentFirst(jobs)
           /\ \A i \in 1..Len(jobs) : \E j \in matching : jobs[i] = store[j]
           /\ \A j \in matching :
                  (\A i \in 1..Len(jobs) : jobs[i] # store[j]) =>
                      \A i \in 1..Len(jobs) :
                          ~Later(FromIso(store[j]["created_at"]),
                                 FromIso(jobs[i]["created_at"]))

\* ----------------------------------------- app.py: upload_file, one request
\* A request is the list of its file parts' names; a name is the sequence of
\* its pieces with "." for a dot, and '' is the empty sequence.  The handler's
\* locals are kept in fout: pos is the index of the file the loop is at,
\* job_ids and errors are the two lists, code is 0 while the handler runs.
MaxFiles == 3

UploadNames ==
    {<<>>, <<"notes", ".", "txt">>, <<"notes", ".", "TXT">>, <<"notes", ".", "exe">>,
     <<"notes">>, <<"notes", ".", "txt", ".", "exe">>}

\* ALLOWED_EXTENSIONS (line 36)
AllowedExtensions == {<<"txt">>}

\* str.lower() on the pieces of a name
LowerPiece(p) == IF p = "TXT" THEN "txt" ELSE p
LowerName(f) == [i \in 1..Len(f) |-> LowerPiece(f[i])]

\* filename.rsplit('.', 1)[1]: what follows the last dot
AfterLastDot(f) ==
    LET last == CHOOSE i \in 1..Len(f) : f[i] = "." /\ \A k \in (i + 1)..Len(f) : f[k] # "."
    IN SubSeq(f, last + 1, Len(f))

\* allowed_file (lines 38-39)
AllowedFile(f) ==
    /\ \E i \in 1..Len(f) : f[i] = "."
    /\ LowerName(AfterLastDot(f)) \in AllowedExtensions

\* `file and allowed_file(file.filename)` (line 262): a part without a name
\* is false
Accepted(f) == f # <<>> /\ AllowedFile(f)

RECURSIVE FileLists(_)
FileLists(n) ==
    IF n = 0 THEN {<<>>}
    ELSE FileLists(n - 1) \cup
         {Append(fs, f) : fs \in {l \in FileLists(n - 1) : Len(l) = n - 1}, f \in UploadNames}

AcceptedIn(files) == {i \in 1..Len(files) : Accepted(files[i])}

\* the requests: at most MaxFiles parts, no more accepted ones than job ids
UploadRequests ==
    {[op |-> "upload", files |-> fs] :
         fs \in {l \in FileLists(MaxFiles) : Cardinality(AcceptedIn(l)) <= MaxJobs}}

InitUpload ==
    /\ NoJobs
    /\ fin \in UploadRequests
    /\ fout = [code |-> 0, pos |-> 1, job_ids |-> <<>>, errors |-> <<>>]

\* lines 254-255: no part, or a first part without a name
NoFilesSelected(files) == IF Len(files) = 0 THEN TRUE ELSE files[1] = <<>>

Looping == fout["code"] = 0 /\ ~NoFilesSelected(fin["files"])

\* lines 251-256: the request is refused before the loop
R_NoFiles ==
    /\ fout["code"] = 0
    /\ NoFilesSelected(fin["files"])
    /\ fout' = [fout EXCEPT !["code"] = 400]
    /\ UNCHANGED <<store, queue, nextId, origin, upc, ujob, wpc, wjob, wcall, wexc, wread, handled, interrupted, fin>>

\* lines 262-269 for the file at pos
R_Begin(u) ==
    /\ Looping
    /\ fout["pos"] <= Len(fin["files"])
    /\ Accepted(fin["files"][fout["pos"]])
    /\ U_BeginStep(u)
    /\ UNCHANGED <<fin, fout>>

\* lines 272-282
R_Set(u) == Looping /\ U_SetStep(u) /\ UNCHANGED <<fin, fout>>

\* lines 285-287: LPUSH, job_ids.append, next file
R_Push(u) ==
    /\ Looping
    /\ U_PushStep(u)
    /\ fout' = [fout EXCEPT !["job_ids"] = Append(@, ujob[u]), !["pos"] = @ + 1]
    /\ UNCHANGED fin

\* lines 288-289: errors.append, next file
R_Reject(u) ==
    /\ Looping
    /\ upc[u] = "idle"
    /\ fout["pos"] <= Len(fin["files"])
    /\ ~Accepted(fin["files"][fout["pos"]])
    /\ fout' = [fout EXCEPT !["errors"] = Append(@, fin["files"][fout["pos"]]), !["pos"] = @ + 1]
    /\ UNCHANGED <<store, queue, nextId, origin, upc, ujob, wpc, wjob, wcall, wexc, wread, handled, interrupted, fin>>

\* lines 291-295: the loop is over, 201 with the two lists
R_Return(u) ==
    /\ Looping
    /\ upc[u] = "idle"
    /\ fout["pos"] > Len(fin["files"])
    /\ fout' = [fout EXCEPT !["code"] = 201]
    /\ UNCHANGED <<store, queue, nextId, origin, upc, ujob, wpc, wjob, wcall, wexc, wread, handled, interrupted, fin>>

\* SET or LPUSH raises: nothing catches it, the request ends with 500
R_StoreError(u) ==
    /\ Looping
    /\ U_StoreErrorStep(u)
    /\ fout' = [fout EXCEPT !["code"] = 500]
    /\ UNCHANGED fin

NextUpload ==
    \/ R_NoFiles
    \/ \E u \in Uploaders : R_Begin(u)
    \/ \E u \in Uploaders : R_Set(u)
    \/ \E u \in Uploaders : R_Push(u)
    \/ \E u \in Uploaders : R_Reject(u)
    \/ \E u \in Uploaders : R_Return(u)
    \/ \E u \in Uploaders : R_StoreError(u)

SpecUpload == InitUpload /\ [][NextUpload]_vars

\* the request has returned a response of its own
Responded == fin["op"] = "upload" /\ fout["code"] \in {201, 400}

\* C29: while upload_file runs, records and queue entries exist only for files
\* with an allowed extension, one of each per file under a fresh id; when the
\* request has answered, every accepted file of the request has its record
\* and its queue entry, whatever rejected files stood before it, and there
\* are as many queue entries as records.
C29_OneJobPerAcceptedFile ==
    fin["op"] = "upload" =>
        LET files == fin["files"]
            done == {i \in AcceptedIn(files) : i < fout["pos"]}
        IN /\ Cardinality(DOMAIN store) <= Cardinality(AcceptedIn(files))
           /\ Len(queue) = Cardinality(done)
           /\ \A i, k \in 1..Len(queue) : i # k => queue[i] # queue[k]
           /\ \A i \in 1..Len(queue) : queue[i] \in DOMAIN store
           /\ Responded =>
                 /\ Cardinality(DOMAIN store) = Cardinality(AcceptedIn(files))
                 /\ Len(queue) = Cardinality(AcceptedIn(files))
                 /\ Len(queue) = Cardinality(DOMAIN store)

\* C28: a worker that holds the id of a record with status queued never lets
\* go of it while the record is still queued, unless it puts the id back on
\* job_queue or another worker holds it; a store operation that raises
\* between the pop and the first status write is no exception.  (A worker
\* that is shut down is left out.)
C28_NoJobLost ==
    [][\A w \in Workers :
          (/\ InCycle(w)
           /\ wjob[w] \in DOMAIN store
           /\ Status(wjob[w]) = "queued"
           /\ wpc'[w] # "stopped"
           /\ wjob[w] \in DOMAIN store'
           /\ store'[wjob[w]]["status"] = "queued")
             => \/ \E i \in 1..Len(queue') : queue'[i] = wjob[w]
                \/ \E w2 \in Workers : wjob'[w2] = wjob[w]]_vars

\* --------------------------------------------- the order of job_queue
\* The lifecycle with the traffic of job_queue written down: fin is the size
\* of the worker pool that was started (the workers beyond it never run),
\* fout keeps the ids in the order they were pushed and the ids in the order
\* they were popped.
PoolSizes == 1..NumWorkers

InitFifo ==
    /\ store = [j \in {} |-> NoRead]
    /\ queue = <<>>
    /\ nextId = 0
    /\ origin = [j \in JobIds |-> "none"]
    /\ upc = [u \in Uploaders |-> "idle"]
    /\ ujob = [u \in Uploaders |-> 0]
    /\ fin \in {[op |-> "pool", workers |-> n] : n \in PoolSizes}
    /\ wpc = [w \in Workers |-> IF w <= fin["workers"] THEN "brpop" ELSE "stopped"]
    /\ wjob = [w \in Workers |-> 0]
    /\ wcall = [w \in Workers |-> NoCall]
    /\ wexc = [w \in Workers |-> "none"]
    /\ wread = [w \in Workers |-> NoRead]
    /\ handled = {}
    /\ interrupted = {}
    /\ fout = [pushed |-> <<>>, popped |-> <<>>]

Pushed(id) == fout' = [fout EXCEPT !["pushed"] = Append(@, id)]

\* app.py line 285
H_Push(u) == U_PushStep(u) /\ Pushed(ujob[u]) /\ UNCHANGED fin

H_SubmitContent == SubmitContentStep /\ Pushed(nextId + 1) /\ UNCHANGED fin

H_PushOrphan == PushOrphanStep /\ Pushed(nextId + 1) /\ UNCHANGED fin

\* worker.py lines 125-131
H_Brpop(w) ==
    /\ W_BrpopStep(w)
    /\ fout' = [fout EXCEPT !["popped"] = Append(@, RPopValue(queue))]
    /\ UNCHANGED fin

NextFifo ==
    \/ \E u \in Uploaders : U_Begin(u)
    \/ \E u \in Uploaders : U_Set(u)
    \/ \E u \in Uploaders : H_Push(u)
    \/ \E u \in Uploaders : U_StoreError(u)
    \/ H_SubmitContent
    \/ H_PushOrphan
    \/ \E w \in Workers : H_Brpop(w)
    \/ \E w \in Workers : W_BrpopTimeout(w)
    \/ \E w \in Workers : W_Get(w)
    \/ \E w \in Workers : W_UpdGet(w)
    \/ \E w \in Workers : W_UpdSet(w)
    \/ \E w \in Workers : W_ProcessOk(w)
    \/ \E w \in Workers : W_ProcessRaise(w)
    \/ \E w \in Workers : W_StoreError(w)
    \/ \E w \in Workers : W_Sleep(w)
    \/ \E w \in Workers : W_Interrupt(w)

SpecFifo == InitFifo /\ [][NextFifo]_vars

\* the place of an id in the order of the pushes
WasPushed(id) == \E i \in 1..Len(fout["pushed"]) : fout["pushed"][i] = id
PushedAt(id) == CHOOSE i \in 1..Len(fout["pushed"]) : fout["pushed"][i] = id
PushedAfter(a, j) == WasPushed(a) /\ WasPushed(j) /\ PushedAt(a) > PushedAt(j)
SingleWorker == fin["workers"] = 1
LeavesQueued(j) ==
    /\ j \in DOMAIN store /\ Status(j) = "queued"
    /\ j \in DOMAIN store' /\ store'[j]["status"] # "queued"

\* C27: the ids popped so far, by all workers together, are the first ids
\* pushed, in the order of their pushes; and in a pool of a single worker a
\* record leaves status queued only when no record pushed after it has left
\* it already.
C27_QueueIsFifo ==
    /\ [](/\ Len(fout["popped"]) <= Len(fout["pushed"])
          /\ fout["popped"] = SubSeq(fout["pushed"], 1, Len(fout["popped"])))
    /\ [][SingleWorker =>
             \A j \in DOMAIN store :
                 LeavesQueued(j) =>
                     \A a \in DOMAIN store :
                         PushedAfter(a, j) => Status(a) = "queued"]_vars

\* two jobs went through the queue of a single worker, the second pushed has
\* the lower id, and both have left status queued
C27_Witness ==
    /\ SingleWorker
    /\ Len(fout["popped"]) >= 2
    /\ fout["pushed"][1] > fout["pushed"][2]
    /\ \A j \in DOMAIN store : Status(j) # "queued"
    /\ Cardinality(DOMAIN store) >= 2

====
